---- MODULE Spec2Model ----
(***************************************************************************)
(* A model of `weights` (src/src/main.rs): a concurrent, recursive         *)
(* directory-size scanner.  main resolves the folder "." with              *)
(* FSEntity::folder, which lists the directory, reads file sizes inline,   *)
(* spawns one task per non-file entry, joins the tasks, sorts the children *)
(* and sums their sizes; print then walks the finished tree.               *)
(*                                                                         *)
(* The filesystem is an input: a tree of at most NumEntries entries whose  *)
(* shape, kinds, lengths, names and failing operations are drawn at Init   *)
(* and never change, and so is the outcome of current_dir().  The name of  *)
(* entry n begins with the character n, so the path of an entry is known   *)
(* by the sequence of entries from the scan root down to it; what else the *)
(* name holds (its length in bytes, a two-byte character, bytes that are   *)
(* no UTF-8) is the entry's name shape.                                    *)
(* Sizes stay far below 2^31, so u64 arithmetic is plain arithmetic here   *)
(* and every size is an exact f64.                                         *)
(*                                                                         *)
(* A task gives way to the others at each await: read_dir, dir.next(),     *)
(* entry.file_type(), metadata() and join_all.  pc[n] is the await at      *)
(* which the task of folder n stands ("readdir", "next", "file_type",      *)
(* "metadata", "join_all") and cur[n] the entry it has taken from the      *)
(* listing and not yet pushed, spawned or skipped.  A task stands at       *)
(* "join_all" after a poll that found a spawned task still running.  stream[n] holds the entries the        *)
(* listing of folder n has not read yet, in no order; eos[n] is the        *)
(* listing's end_of_stream: once a read of the directory has failed, the   *)
(* listing yields None and the entries not yet read are never listed.      *)
(***************************************************************************)
EXTENDS Integers, Sequences, FiniteSets

NumEntries == 5
MaxFaults == 1

Root == 1
Nodes == 1..NumEntries
Lens == {10, 50, 100}

VARIABLES fs, cwdOk, pc, stream, eos, cur, tasks, entity, pcMain, stdout, stderr

vars == <<fs, cwdOk, pc, stream, eos, cur, tasks, entity, pcMain, stdout, stderr>>

\* while let Some(entry): no entry is held
NoEntry == 0

PathTooLong == 50
PathKeep == 20

(***************************************************************************)
(* The filesystem                                                          *)
(***************************************************************************)
Parent(n) == (n + 1) \div 3

FileTypes == {"file", "dir", "other"}
Faults == {"none", "next", "type", "meta", "scan"}

\* the shape of an entry's name after its first character:
\*   "plain"    nothing more: one ASCII byte;
\*   "long"     ASCII characters up to PathTooLong - 1 bytes, so that the
\*              path "./name" is one byte longer than PathTooLong;
\*   "wide"     as long, with one two-byte character whose second byte is
\*              byte PathKeep of the path "./name";
\*   "nonutf8"  a byte that is no UTF-8.
NameShapes == {"plain", "long", "wide", "nonutf8"}

Absent ==
    [present |-> FALSE, ftype |-> "file", len |-> 0, fault |-> "none", name |-> "plain"]

\* what a failing operation would have returned is never read: an entry whose
\* read, file-type lookup or metadata read fails is drawn as a file of the
\* greatest length only.  An entry has a failing operation or a name that is
\* not plain, never both, and one with such a name is a file of the greatest
\* length or a directory.
EntryShapes ==
    {Absent}
    \cup [present : {TRUE}, ftype : {"file"}, len : Lens, fault : {"none"},
          name : {"plain"}]
    \cup [present : {TRUE}, ftype : {"file"}, len : {100},
          fault : {"next", "type", "meta"}, name : {"plain"}]
    \cup [present : {TRUE}, ftype : {"dir"}, len : {0}, fault : {"none", "scan"},
          name : {"plain"}]
    \cup [present : {TRUE}, ftype : {"other"}, len : {0}, fault : {"none"},
          name : {"plain"}]
    \cup [present : {TRUE}, ftype : {"file"}, len : {100}, fault : {"none"},
          name : NameShapes \ {"plain"}]
    \cup [present : {TRUE}, ftype : {"dir"}, len : {0}, fault : {"none"},
          name : NameShapes \ {"plain"}]

\* the scan root is "."
RootShapes ==
    [present : {TRUE}, ftype : {"dir"}, len : {0}, fault : {"none", "scan"},
     name : {"plain"}]

Irregular(s) == s.fault # "none" \/ s.name # "plain"

\* the entries among 1..k with a failing operation or a name that is not plain
FaultCount(f, k) == Cardinality({n \in 1..k : Irregular(f[n])})

\* entry k may be added to the tree f over 1..k-1 with shape s; the entries
\* of a directory that is skipped in its parent's listing, or whose name is
\* no UTF-8, are never read and are left out
Fits(f, k, s) ==
    /\ s.present =>
          /\ f[Parent(k)].present
          /\ f[Parent(k)].ftype = "dir"
          /\ f[Parent(k)].fault \notin {"next", "type"}
          /\ f[Parent(k)].name # "nonutf8"
    /\ FaultCount(f, k - 1) + (IF Irregular(s) THEN 1 ELSE 0) <= MaxFaults

RECURSIVE FileSystemsUpTo(_)
FileSystemsUpTo(k) ==
    IF k = Root THEN {[n \in {Root} |-> r] : r \in RootShapes}
    ELSE {[n \in 1..k |-> IF n = k THEN x[2] ELSE x[1][n]] :
             x \in {y \in FileSystemsUpTo(k - 1) \X EntryShapes : Fits(y[1], k, y[2])}}

FileSystems == FileSystemsUpTo(NumEntries)

Children(f, d) == {n \in Nodes \ {Root} : Parent(n) = d /\ f[n].present}

RECURSIVE PathOf(_)
PathOf(n) == IF n = Root THEN <<Root>> ELSE Append(PathOf(Parent(n)), n)

NodeOf(path) == path[Len(path)]

\* path.to_str() is Some: every name on the path is UTF-8
RECURSIVE IsUtf8(_, _)
IsUtf8(f, n) ==
    IF n = Root THEN TRUE ELSE f[n].name # "nonutf8" /\ IsUtf8(f, Parent(n))

\* read_dir(self.path.to_string_lossy()) succeeds on a directory that can be
\* opened, and on nothing else; the lossy string of a path that is no UTF-8
\* names no entry of the tree
ReadDirOk(f, n) == f[n].ftype = "dir" /\ f[n].fault # "scan" /\ IsUtf8(f, n)

\* metadata(&path).await.map(|m| m.len())
MetadataLen(f, n) == IF f[n].fault = "meta" THEN -1 ELSE f[n].len

(***************************************************************************)
(* Ordering                                                                *)
(***************************************************************************)
CmpInt(a, b) == IF a < b THEN "Less" ELSE IF a > b THEN "Greater" ELSE "Equal"

Then(o1, o2) == IF o1 # "Equal" THEN o1 ELSE o2

CmpKind(a, b) ==
    IF a = "File" /\ b = "Folder" THEN "Less"
    ELSE IF a = "Folder" /\ b = "File" THEN "Greater"
    ELSE "Equal"

RECURSIVE CmpPath(_, _)
CmpPath(p, q) ==
    IF p = <<>> /\ q = <<>> THEN "Equal"
    ELSE IF p = <<>> THEN "Less"
    ELSE IF q = <<>> THEN "Greater"
    ELSE Then(CmpInt(Head(p), Head(q)), CmpPath(Tail(p), Tail(q)))

CmpEntity(a, b) ==
    Then(CmpKind(a.kind, b.kind), Then(CmpInt(a.size, b.size), CmpPath(a.path, b.path)))

\* a closure that sorts ascending
SortClosureAscending(a, b) == CmpEntity(a, b)

\* the closure handed to sort_by
SortClosure(a, b) == CmpEntity(b, a)

RECURSIVE InsertSorted(_, _)
InsertSorted(s, x) ==
    IF s = <<>> THEN <<x>>
    ELSE IF SortClosure(Head(s), x) = "Greater" THEN <<x>> \o s
    ELSE <<Head(s)>> \o InsertSorted(Tail(s), x)

RECURSIVE SortBy(_)
SortBy(s) ==
    IF s = <<>> THEN <<>>
    ELSE InsertSorted(SortBy(SubSeq(s, 1, Len(s) - 1)), s[Len(s)])

RECURSIVE SumSizes(_)
SumSizes(s) == IF s = <<>> THEN 0 ELSE Head(s).size + SumSizes(Tail(s))

(***************************************************************************)
(* FSEntity                                                                *)
(***************************************************************************)
NoEntity == [path |-> <<>>, size |-> 0, kind |-> "None", list |-> <<>>]

FileEntity(f, n) ==
    [path |-> PathOf(n),
     size |-> IF MetadataLen(f, n) < 0 THEN 0 ELSE MetadataLen(f, n),
     kind |-> "File",
     list |-> <<>>]

\* FSType::list and FSType::list_mut panic on anything but a Folder
ListPanics(kind) == kind # "Folder"

NewFolder(n) == [path |-> PathOf(n), size |-> 0, kind |-> "Folder", list |-> <<>>]

\* a sum that takes the size out of every child it adds up
AggregateTakesSizes(e, results) ==
    LET l == SortBy(e.list \o results)
    IN  [e EXCEPT !.list = [i \in 1..Len(l) |-> [l[i] EXCEPT !.size = 0]],
                  !.size = e.size + SumSizes(l)]

\* a sum taken over the joined results only
AggregateResultsOnly(e, results) ==
    LET l == SortBy(e.list \o results)
    IN  [e EXCEPT !.list = l, !.size = e.size + SumSizes(results)]

\* the tail of calculate_size, after join_all has returned `results`
Aggregate(e, results) ==
    LET l == SortBy(e.list \o results)
    IN  [e EXCEPT !.list = l, !.size = e.size + SumSizes(l)]

\* a join that awaits the first handle only
JoinReadyFirst(n) == tasks[n] # <<>> => pc[tasks[n][1]] = "done"

JoinReady(n) == \A i \in 1..Len(tasks[n]) : pc[tasks[n][i]] = "done"

\* a join that yields the result of the first handle only
JoinAllFirst(n) == IF tasks[n] = <<>> THEN <<>> ELSE <<entity[tasks[n][1]]>>

JoinAll(n) == [i \in 1..Len(tasks[n]) |-> entity[tasks[n][i]]]

(***************************************************************************)
(* print                                                                   *)
(***************************************************************************)
\* num / den rounded to the nearest integer, ties to even; the quotients of
\* format_size are exact f64 (den is a power of 2)
RoundDiv(num, den) ==
    LET q == num \div den
        r == num % den
    IN  IF 2 * r > den \/ (2 * r = den /\ q % 2 = 1) THEN q + 1 ELSE q

KB == 1024

\* the number shown, in hundredths, and its unit
FormatSize(size) ==
    IF size \div (KB * KB * KB) # 0 THEN <<RoundDiv(size * 100, KB * KB * KB), "GB">>
    ELSE IF size \div (KB * KB) # 0 THEN <<RoundDiv(size * 100, KB * KB), "MB">>
    ELSE IF size \div KB # 0 THEN <<RoundDiv(size * 100, KB), "KB">>
    ELSE <<size * 100, "Bytes">>

(***************************************************************************)
(* A string is modelled by the byte widths of its characters.              *)
(***************************************************************************)
Ascii(n) == [i \in 1..n |-> 1]

\* the characters of an entry's name
NameWidths(shape) ==
    IF shape = "plain" THEN Ascii(1)
    ELSE IF shape = "long" THEN Ascii(PathTooLong - 1)
    ELSE [i \in 1..(PathTooLong - 2) |-> IF i = PathKeep - 2 THEN 2 ELSE 1]

\* "." and one "/name" per level
RECURSIVE PathWidths(_)
PathWidths(path) ==
    IF Len(path) = 1 THEN Ascii(1)
    ELSE PathWidths(SubSeq(path, 1, Len(path) - 1))
            \o Ascii(1) \o NameWidths(fs[path[Len(path)]].name)

\* str::len: the length in bytes
RECURSIVE ByteLen(_)
ByteLen(w) == IF w = <<>> THEN 0 ELSE Head(w) + ByteLen(Tail(w))

\* str::is_char_boundary
IsCharBoundary(w, k) == \E j \in 0..Len(w) : ByteLen(SubSeq(w, 1, j)) = k

Unknown == "<UNKNOWN>"
UnknownWidths == Ascii(9)

\* let out = path.to_str().unwrap_or("<UNKNOWN>")
Out(path) == IF IsUtf8(fs, NodeOf(path)) THEN PathWidths(path) ELSE UnknownWidths

\* &out[0..20] or &out[len - 20..] is cut inside a character: the slice panics
SlicePanics(path) ==
    LET out == Out(path)
        len == ByteLen(out)
    IN  /\ len > PathTooLong
        /\ ~(IsCharBoundary(out, PathKeep) /\ IsCharBoundary(out, len - PathKeep))

\* the text shown: the first `head` and the last `tail` bytes of `of`
FormatPath(path) ==
    LET len == ByteLen(Out(path))
        of == IF IsUtf8(fs, NodeOf(path)) THEN path ELSE Unknown
    IN  IF len > PathTooLong
        THEN [head |-> PathKeep, tail |-> PathKeep, of |-> of]
        ELSE [head |-> len, tail |-> 0, of |-> of]

MantissaBits == 53

RECURSIVE Log2(_)
Log2(n) == IF n <= 1 THEN 0 ELSE 1 + Log2(n \div 2)

\* how often m is doubled until it is 25 or more
RECURSIVE Doublings(_)
Doublings(m) == IF m >= 25 THEN 0 ELSE 1 + Doublings(2 * m)

RECURSIVE Pow2Mod25(_)
Pow2Mod25(e) == IF e = 0 THEN 1 ELSE (2 * Pow2Mod25(e - 1)) % 25

\* m / 200 for an odd m that 25 does not divide is no f64: the f64 nearest to
\* it is the multiple of 2^-e nearest to m / 25, with e such that the
\* quotient has MantissaBits bits, and lies above it iff the remainder of
\* m * 2^e by 25 is more than half of 25
NearestF64Above(m) ==
    LET e == IF m >= 25 THEN MantissaBits - 1 - Log2(m \div 25)
             ELSE MantissaBits - 1 + Doublings(m)
    IN  2 * (((m % 25) * Pow2Mod25(e)) % 25) > 25

\* format!("{:.2}", num as f64 / den as f64) in hundredths: the f64 nearest
\* to the quotient, shown to two decimals, ties to even.  The f64 and the
\* quotient round alike unless the quotient is the midpoint (2q + 1) / 200.
\* (num and den are exact f64 and den is far below 2^40.)
RoundF64(num, den) ==
    LET q == (num * 100) \div den
        r == (num * 100) % den
        m == 2 * q + 1
    IN  IF 2 * r # den THEN (IF 2 * r > den THEN q + 1 ELSE q)
        ELSE IF m % 25 = 0 THEN (IF q % 2 = 1 THEN q + 1 ELSE q)
        ELSE IF NearestF64Above(m) THEN q + 1 ELSE q

\* a percentage taken of the scan root's size
RatioOfRoot(e, parent) ==
    IF e.size # 0 THEN RoundF64(e.size * 100, entity[Root].size) ELSE 0

\* the percentage shown, in hundredths of a percent
Ratio(e, parent) ==
    IF e.size # 0 THEN RoundF64(e.size * 100, parent.size) ELSE 0

\* one line of the report; `entry` is the entity the line is printed for and
\* no part of the text
Line(e, parent, level) ==
    [typ |-> IF e.kind = "Folder" THEN "FOLDER" ELSE "FILE",
     size |-> FormatSize(e.size),
     ratio |-> Ratio(e, parent),
     level |-> level,
     path |-> FormatPath(e.path),
     entry |-> e.path]

PanicInvalidFSType == "panicked: Invalid FSType"
PanicCharBoundary == "panicked: byte index is not a char boundary"
PanicUnwrap == "panicked: called Result::unwrap() on an Err value"

\* the end of a walk that panicked
Panic(msg) == [typ |-> "PANIC", msg |-> msg]

Panicked(lines) == lines # <<>> /\ lines[Len(lines)].typ = "PANIC"

\* the lines a walk has written
Printed(lines) == IF Panicked(lines) THEN SubSeq(lines, 1, Len(lines) - 1) ELSE lines

\* a walk that descends into every entity
RecursesIntoAny(e) == TRUE

\* if let FSType::Folder(_) = entity.kind
RecursesInto(e) == e.kind = "Folder"

\* a walk that prints a folder's later siblings before the folder's children
RECURSIVE PrintSiblingsFirst(_, _, _)
PrintSiblingsFirst(parent, level, i) ==
    IF i > Len(parent.list) THEN <<>>
    ELSE LET e == parent.list[i]
         IN  <<Line(e, parent, level)>>
             \o PrintSiblingsFirst(parent, level, i + 1)
             \o (IF e.kind = "Folder" THEN PrintSiblingsFirst(e, level + 1, 1) ELSE <<>>)

\* a walk that stops at the direct children
PrintTopLevel(parent, level) ==
    [i \in 1..Len(parent.list) |-> Line(parent.list[i], parent, level)]

\* print(parent, level): the lines written, ended by Panic(msg) when the walk
\* panics; PrintFrom is the loop from child i on
RECURSIVE PrintTree(_, _)
RECURSIVE PrintFrom(_, _, _)
PrintFrom(parent, level, i) ==
    IF i > Len(parent.list) THEN <<>>
    ELSE LET e == parent.list[i]
             below == IF RecursesInto(e) THEN PrintTree(e, level + 1) ELSE <<>>
         IN  IF SlicePanics(e.path) THEN <<Panic(PanicCharBoundary)>>
             ELSE IF Panicked(below) THEN <<Line(e, parent, level)>> \o below
             ELSE <<Line(e, parent, level)>> \o below \o PrintFrom(parent, level, i + 1)

PrintTree(parent, level) ==
    IF ListPanics(parent.kind) THEN <<Panic(PanicInvalidFSType)>>
    ELSE PrintFrom(parent, level, 1)

\* println!("{}", current_dir): the working directory, no entry behind it
CwdLine ==
    [typ |-> "CWD", size |-> <<0, "">>, ratio |-> 0, level |-> 0, path |-> "cwd",
     entry |-> <<>>]

(***************************************************************************)
(* The program                                                             *)
(***************************************************************************)
Init ==
    /\ fs \in FileSystems
    /\ cwdOk \in BOOLEAN
    /\ pc = [n \in Nodes |-> "idle"]
    /\ stream = [n \in Nodes |-> {}]
    /\ eos = [n \in Nodes |-> FALSE]
    /\ cur = [n \in Nodes |-> NoEntry]
    /\ tasks = [n \in Nodes |-> <<>>]
    /\ entity = [n \in Nodes |-> NoEntity]
    /\ pcMain = "start"
    /\ stdout = <<>>
    /\ stderr = <<>>

\* main up to the first await of FSEntity::folder("."); current_dir().unwrap()
\* panics before anything is written when there is no working directory
MainStart ==
    /\ pcMain = "start"
    /\ IF cwdOk
       THEN /\ pcMain' = "await"
            /\ stdout' = Append(stdout, CwdLine)
            /\ pc' = [pc EXCEPT ![Root] = "readdir"]
            /\ entity' = [entity EXCEPT ![Root] = NewFolder(Root)]
       ELSE /\ pcMain' = PanicUnwrap
            /\ UNCHANGED <<stdout, pc, entity>>
    /\ UNCHANGED <<fs, cwdOk, stream, eos, cur, tasks, stderr>>

\* the first poll of a spawned task: FSEntity::folder(path) up to read_dir
FolderStart(n) ==
    /\ pc[n] = "spawned"
    /\ pc' = [pc EXCEPT ![n] = "readdir"]
    /\ entity' = [entity EXCEPT ![n] = NewFolder(n)]
    /\ UNCHANGED <<fs, cwdOk, stream, eos, cur, tasks, pcMain, stdout, stderr>>

\* a failed read_dir that reports one byte for the directory itself
ScanFailOneByte(n) ==
    /\ pc[n] = "readdir"
    /\ ~ReadDirOk(fs, n)
    /\ pc' = [pc EXCEPT ![n] = "done"]
    /\ entity' = [entity EXCEPT ![n].size = 1]
    /\ UNCHANGED <<fs, cwdOk, stream, eos, cur, tasks, pcMain, stdout, stderr>>

\* read_dir fails: calculate_size returns 0
ScanFail(n) ==
    /\ pc[n] = "readdir"
    /\ ~ReadDirOk(fs, n)
    /\ pc' = [pc EXCEPT ![n] = "done"]
    /\ entity' = [entity EXCEPT ![n].size = 0]
    /\ UNCHANGED <<fs, cwdOk, stream, eos, cur, tasks, pcMain, stdout, stderr>>

\* read_dir succeeds and self.kind.list_mut() is taken
ScanOpen(n) ==
    /\ pc[n] = "readdir"
    /\ ReadDirOk(fs, n)
    /\ IF ListPanics(entity[n].kind)
       THEN pc' = [pc EXCEPT ![n] = "panic"] /\ UNCHANGED stream
       ELSE /\ pc' = [pc EXCEPT ![n] = "next"]
            /\ stream' = [stream EXCEPT ![n] = Children(fs, n)]
    /\ UNCHANGED <<fs, cwdOk, eos, cur, tasks, entity, pcMain, stdout, stderr>>

\* dir.next() yields Some(Err) in place of entry c: the warning, then the
\* next dir.next(); the listing has come to its end (std::fs::ReadDir sets
\* end_of_stream on a failed read), so the entries left in stream[n] are
\* never yielded
NextEntryErr(n) ==
    /\ pc[n] = "next"
    /\ ~eos[n]
    /\ \E c \in stream[n] :
          /\ fs[c].fault = "next"
          /\ stream' = [stream EXCEPT ![n] = @ \ {c}]
    /\ eos' = [eos EXCEPT ![n] = TRUE]
    /\ stderr' = Append(stderr, "ERROR: Getting next entry")
    /\ UNCHANGED <<fs, cwdOk, pc, cur, tasks, entity, pcMain, stdout>>

\* dir.next() yields Some(Ok(entry)): up to entry.file_type()
NextEntry(n) ==
    /\ pc[n] = "next"
    /\ ~eos[n]
    /\ \E c \in stream[n] :
          /\ fs[c].fault # "next"
          /\ stream' = [stream EXCEPT ![n] = @ \ {c}]
          /\ cur' = [cur EXCEPT ![n] = c]
    /\ pc' = [pc EXCEPT ![n] = "file_type"]
    /\ UNCHANGED <<fs, cwdOk, eos, tasks, entity, pcMain, stdout, stderr>>

\* entry.file_type() yields Err: the warning, then the next dir.next()
FileTypeErr(n) ==
    /\ pc[n] = "file_type"
    /\ fs[cur[n]].fault = "type"
    /\ stderr' = Append(stderr, "ERROR: Getting file type")
    /\ cur' = [cur EXCEPT ![n] = NoEntry]
    /\ pc' = [pc EXCEPT ![n] = "next"]
    /\ UNCHANGED <<fs, cwdOk, stream, eos, tasks, entity, pcMain, stdout>>

\* entry.file_type() yields a regular file: FSEntity::file(path) up to
\* metadata()
IsFile(n) ==
    /\ pc[n] = "file_type"
    /\ fs[cur[n]].fault # "type"
    /\ fs[cur[n]].ftype = "file"
    /\ pc' = [pc EXCEPT ![n] = "metadata"]
    /\ UNCHANGED <<fs, cwdOk, stream, eos, cur, tasks, entity, pcMain, stdout, stderr>>

\* metadata() returns: list.push, then the next dir.next()
PushFile(n) ==
    /\ pc[n] = "metadata"
    /\ entity' = [entity EXCEPT ![n].list = Append(@, FileEntity(fs, cur[n]))]
    /\ cur' = [cur EXCEPT ![n] = NoEntry]
    /\ pc' = [pc EXCEPT ![n] = "next"]
    /\ UNCHANGED <<fs, cwdOk, stream, eos, tasks, pcMain, stdout, stderr>>

\* a task spawned for directories only; other entries are dropped
SpawnDirsOnly(n) ==
    /\ pc[n] = "file_type"
    /\ fs[cur[n]].fault # "type"
    /\ fs[cur[n]].ftype # "file"
    /\ tasks' = IF fs[cur[n]].ftype = "dir" THEN [tasks EXCEPT ![n] = Append(@, cur[n])]
                ELSE tasks
    /\ pc' = [pc EXCEPT ![n] = "next",
                        ![cur[n]] = IF fs[cur[n]].ftype = "dir" THEN "spawned" ELSE @]
    /\ cur' = [cur EXCEPT ![n] = NoEntry]
    /\ UNCHANGED <<fs, cwdOk, stream, eos, entity, pcMain, stdout, stderr>>

\* entry.file_type() yields anything but a regular file: the task is
\* spawned and its handle pushed, then the next dir.next()
SpawnFolder(n) ==
    /\ pc[n] = "file_type"
    /\ fs[cur[n]].fault # "type"
    /\ fs[cur[n]].ftype # "file"
    /\ tasks' = [tasks EXCEPT ![n] = Append(@, cur[n])]
    /\ pc' = [pc EXCEPT ![n] = "next", ![cur[n]] = "spawned"]
    /\ cur' = [cur EXCEPT ![n] = NoEntry]
    /\ UNCHANGED <<fs, cwdOk, stream, eos, entity, pcMain, stdout, stderr>>

\* the listing of folder n yields None: no entry is left, or a read failed
EndOfListing(n) == pc[n] = "next" /\ (stream[n] = {} \/ eos[n])

\* dir.next() yields None and join_all finds a spawned task that has not
\* returned: the task of folder n gives way and waits at join_all
JoinWait(n) ==
    /\ EndOfListing(n)
    /\ ~JoinReady(n)
    /\ pc' = [pc EXCEPT ![n] = "join_all"]
    /\ UNCHANGED <<fs, cwdOk, stream, eos, cur, tasks, entity, pcMain, stdout, stderr>>

\* join_all returns, in the poll in which dir.next() yields None or in a
\* later one: append, sort, sum
Join(n) ==
    /\ EndOfListing(n) \/ pc[n] = "join_all"
    /\ JoinReady(n)
    /\ entity' = [entity EXCEPT ![n] = Aggregate(@, JoinAll(n))]
    /\ pc' = [pc EXCEPT ![n] = "done"]
    /\ UNCHANGED <<fs, cwdOk, stream, eos, cur, tasks, pcMain, stdout, stderr>>

\* main after FSEntity::folder(".") has returned: print(&f, 0)
MainPrint ==
    /\ pcMain = "await"
    /\ pc[Root] = "done"
    /\ LET lines == PrintTree(entity[Root], 0)
       IN  /\ stdout' = stdout \o Printed(lines)
           /\ pcMain' = IF Panicked(lines) THEN lines[Len(lines)].msg ELSE "done"
    /\ UNCHANGED <<fs, cwdOk, pc, stream, eos, cur, tasks, entity, stderr>>

Next ==
    \/ MainStart
    \/ \E n \in Nodes : FolderStart(n)
    \/ \E n \in Nodes : ScanFail(n)
    \/ \E n \in Nodes : ScanOpen(n)
    \/ \E n \in Nodes : NextEntryErr(n)
    \/ \E n \in Nodes : NextEntry(n)
    \/ \E n \in Nodes : FileTypeErr(n)
    \/ \E n \in Nodes : IsFile(n)
    \/ \E n \in Nodes : PushFile(n)
    \/ \E n \in Nodes : SpawnFolder(n)
    \/ \E n \in Nodes : JoinWait(n)
    \/ \E n \in Nodes : Join(n)
    \/ MainPrint

Spec == Init /\ [][Next]_vars

\* the steps of the task that resolves folder n
TaskStep(n) ==
    \/ FolderStart(n)
    \/ ScanFail(n)
    \/ ScanOpen(n)
    \/ NextEntryErr(n)
    \/ NextEntry(n)
    \/ FileTypeErr(n)
    \/ IsFile(n)
    \/ PushFile(n)
    \/ SpawnFolder(n)
    \/ JoinWait(n)
    \/ Join(n)

\* the executor keeps polling main and every spawned task that can run
FairSpec ==
    /\ Spec
    /\ WF_vars(MainStart \/ MainPrint)
    /\ \A n \in Nodes : WF_vars(TaskStep(n))

(***************************************************************************)
(* Properties                                                              *)
(***************************************************************************)
Indices(s) == 1..Len(s)

\* the awaits of a task that has not returned
Scanning == {"readdir", "next", "file_type", "metadata", "join_all"}

\* print has run: to its end, or up to a slice inside a character
Reported == {"done", PanicCharBoundary}

RECURSIVE WellSized(_)
WellSized(e) ==
    IF e.kind = "File"
    THEN e.size = (IF fs[NodeOf(e.path)].fault = "meta" THEN 0 ELSE fs[NodeOf(e.path)].len)
    ELSE /\ e.size = SumSizes(e.list)
         /\ \A i \in Indices(e.list) : WellSized(e.list[i])

\* C1: in every tree returned by FSEntity::folder, a Folder's size is the sum
\* of its direct children's sizes and a File's size is its metadata length,
\* or 0 when the metadata read failed.
C1_SizesAggregate == \A n \in Nodes : pc[n] = "done" => WellSized(entity[n])

C1_Witness ==
    /\ pc[Root] = "done"
    /\ entity[Root].size > 0
    /\ \E i, j \in Indices(entity[Root].list) :
          /\ entity[Root].list[i].kind = "Folder"
          /\ entity[Root].list[i].size > 0
          /\ entity[Root].list[j].kind = "File"
          /\ fs[NodeOf(entity[Root].list[j].path)].fault = "meta"

\* C2: a folder is finished only when every task it spawned has finished, and
\* until then its size is still 0 and its list holds no joined result.
C2_JoinBarrier ==
    /\ \A n \in Nodes :
          pc[n] = "done" => \A i \in Indices(tasks[n]) : pc[tasks[n][i]] = "done"
    /\ \A n \in Nodes :
          pc[n] \in Scanning =>
             /\ entity[n].size = 0
             /\ \A i \in Indices(entity[n].list) : entity[n].list[i].kind = "File"
    /\ pcMain = "done" => \A n \in Nodes : pc[n] \in {"idle", "done"}

\* a task waiting at join_all with one spawned task returned and one running
C2_Witness ==
    \E n \in Nodes :
       /\ pc[n] = "join_all"
       /\ \E i, j \in Indices(tasks[n]) :
             pc[tasks[n][i]] = "done" /\ pc[tasks[n][j]] # "done"

\* C3: in every resolved directory, a sibling that precedes another is of a
\* kind at least as high (Folder above File) and, when the kinds are equal,
\* of a size at least as large.
C3_KindThenSizeDescending ==
    \A n \in Nodes :
       pc[n] = "done" =>
          \A i, j \in Indices(entity[n].list) :
             i < j =>
                LET a == entity[n].list[i]
                    b == entity[n].list[j]
                IN  /\ ~(a.kind = "File" /\ b.kind = "Folder")
                    /\ a.kind = b.kind => a.size >= b.size

\* directory A = root with f1 = 100 (entry 3), f2 = 50 (entry 4) and
\* subdirectory B (entry 2) holding f3 = 10 (entry 5): order [B, f1, f2]
C3_Witness ==
    /\ pc[Root] = "done"
    /\ entity[Root].size = 160
    /\ Len(entity[Root].list) = 3
    /\ [i \in 1..3 |-> entity[Root].list[i].path] = <<PathOf(2), PathOf(3), PathOf(4)>>
    /\ [i \in 1..3 |-> entity[Root].list[i].size] = <<10, 100, 50>>
    /\ entity[Root].list[1].kind = "Folder"

SameKindAndSize(a, b) == a.kind = b.kind /\ a.size = b.size

\* C4 as stated: siblings of the same kind and size are in ascending path order.
C4_PathAscending ==
    \A n \in Nodes :
       pc[n] = "done" =>
          \A i, j \in Indices(entity[n].list) :
             (i < j /\ SameKindAndSize(entity[n].list[i], entity[n].list[j])) =>
                CmpPath(entity[n].list[i].path, entity[n].list[j].path) # "Greater"

\* a resolved directory with two siblings of the same kind and the same size
C4_Witness ==
    \E n \in Nodes :
       /\ pc[n] = "done"
       /\ \E i, j \in Indices(entity[n].list) :
             i < j /\ SameKindAndSize(entity[n].list[i], entity[n].list[j])

(***************************************************************************)
(* The tree a sequential scan of filesystem f yields for folder n, its     *)
(* entries taken in ascending name order: the entries before the first one *)
(* whose read fails, less those whose file type is not given.              *)
(***************************************************************************)
RECURSIVE AscendingSeq(_)
AscendingSeq(S) ==
    IF S = {} THEN <<>>
    ELSE LET x == CHOOSE y \in S : \A z \in S : y <= z
         IN  <<x>> \o AscendingSeq(S \ {x})

RECURSIVE Resolve(_, _)
Resolve(f, n) ==
    IF ~ReadDirOk(f, n) THEN NewFolder(n)
    ELSE LET read == {c \in Children(f, n) :
                         \A d \in Children(f, n) : d <= c => f[d].fault # "next"}
             kept == {c \in read : f[c].fault # "type"}
             files == AscendingSeq({c \in kept : f[c].ftype = "file"})
             dirs == AscendingSeq({c \in kept : f[c].ftype # "file"})
             list == [i \in Indices(files) |-> FileEntity(f, files[i])]
                     \o [i \in Indices(dirs) |-> Resolve(f, dirs[i])]
             sorted == SortBy(list)
         IN  [path |-> PathOf(n), size |-> SumSizes(sorted), kind |-> "Folder",
              list |-> sorted]

RECURSIVE Under(_, _)
Under(n, d) == n # Root /\ (Parent(n) = d \/ Under(Parent(n), d))

Unlistable(f, n) == f[n].present /\ f[n].ftype # "file" /\ ~ReadDirOk(f, n)

\* the entries a finished scan never got to read: those left in a listing
\* that ended at a failed read, the entry in whose place the read failed, and
\* the entries below them
RECURSIVE Unread(_)
Unread(n) ==
    IF n = Root THEN FALSE
    ELSE n \in stream[Parent(n)] \/ fs[n].fault = "next" \/ Unread(Parent(n))

\* the filesystem as the scan has seen it
Seen == [n \in Nodes |-> IF Unread(n) THEN Absent ELSE fs[n]]

\* f with every folder that cannot be listed replaced by an empty directory
Emptied(f) ==
    [n \in Nodes |->
        IF \E d \in Nodes : Unlistable(f, d) /\ Under(n, d) THEN Absent
        ELSE IF Unlistable(f, n)
             THEN [f[n] EXCEPT !.ftype = "dir",
                               !.fault = IF @ = "scan" THEN "none" ELSE @,
                               !.name = IF @ = "nonutf8" THEN "plain" ELSE @]
             ELSE f[n]]

\* C5: a folder whose read_dir fails resolves to size 0 with no children, and
\* the finished tree is the tree of the same entries with that folder
\* empty; the failure is never an error of the parent.
C5_FaultIsolation ==
    /\ \A n \in Nodes :
          (pc[n] = "done" /\ ~ReadDirOk(fs, n)) =>
             (entity[n].size = 0 /\ entity[n].list = <<>> /\ entity[n].kind = "Folder")
    /\ pc[Root] = "done" => entity[Root] = Resolve(Emptied(Seen), Root)

C5_Witness ==
    /\ pcMain = "done"
    /\ entity[Root].size > 0
    /\ \E n \in Nodes \ {Root} :
          /\ fs[n].fault = "scan"
          /\ \E c \in Children(fs, n) : fs[c].ftype = "file"
          /\ pc[n] = "done"
          /\ pc[Parent(n)] = "done"

\* C6 as stated: the finished tree and the printed lines depend on the
\* filesystem alone, not on the order of the listing nor on the order in
\* which the spawned tasks run and finish: they are those of the scan that
\* takes the entries in ascending name order.
C6_Deterministic ==
    /\ pc[Root] = "done" => entity[Root] = Resolve(fs, Root)
    /\ pcMain \in Reported =>
          /\ stdout = <<CwdLine>> \o Printed(PrintTree(Resolve(fs, Root), 0))
          /\ pcMain = "done" <=> ~Panicked(PrintTree(Resolve(fs, Root), 0))

(***************************************************************************)
(* Failures and warnings                                                   *)
(***************************************************************************)
\* the step in which read_dir fails for folder n
ScanFailureAt(n) == pc[n] = "readdir" /\ ~ReadDirOk(fs, n) /\ pc'[n] = "done"

\* the step in which folder n's listing fails to yield its next entry
NextFailureAt(n) == \E c \in stream[n] \ stream'[n] : fs[c].fault = "next"

\* the step in which the file type of the entry folder n holds is not given
TypeFailureAt(n) ==
    pc[n] = "file_type" /\ fs[cur[n]].fault = "type" /\ pc'[n] # "file_type"

\* the step in which the metadata of the file folder n holds is not given
MetaFailureAt(n) ==
    pc[n] = "metadata" /\ fs[cur[n]].fault = "meta" /\ pc'[n] # "metadata"

\* C7 as stated: every scan, entry and metadata failure writes a warning.
C7_EveryFailureWarns ==
    [][\A n \in Nodes :
          (ScanFailureAt(n) \/ NextFailureAt(n) \/ TypeFailureAt(n) \/ MetaFailureAt(n))
             => Len(stderr') = Len(stderr) + 1]_vars

\* a finished run in which a folder could not be listed and nothing was
\* written to standard error
C7_Witness ==
    /\ pcMain = "done"
    /\ stderr = <<>>
    /\ \E n \in Nodes :
          /\ fs[n].present /\ fs[n].ftype = "dir" /\ fs[n].fault = "scan"
          /\ pc[n] = "done"
          /\ entity[n].size = 0 /\ entity[n].list = <<>>

\* a finished run in which a listed file's size could not be read and
\* nothing was written to standard error
C7_WitnessMetadata ==
    /\ pcMain = "done"
    /\ stderr = <<>>
    /\ \E c \in Nodes \ {Root} :
          /\ fs[c].fault = "meta"
          /\ pc[Parent(c)] = "done"
          /\ \E i \in Indices(entity[Parent(c)].list) :
                /\ entity[Parent(c)].list[i].path = PathOf(c)
                /\ entity[Parent(c)].list[i].size = 0

(***************************************************************************)
(* The report                                                              *)
(***************************************************************************)
RECURSIVE PathsIn(_)
PathsIn(e) == {e.path} \cup UNION {PathsIn(e.list[i]) : i \in Indices(e.list)}

EntryLines(p) ==
    {i \in Indices(stdout) : stdout[i].typ # "CWD" /\ stdout[i].entry = p}

\* C8 as stated: one entry line for every Entry of the tree, the root included.
C8_OneLinePerEntry ==
    pcMain = "done" =>
       \A p \in PathsIn(entity[Root]) : Cardinality(EntryLines(p)) = 1

\* C8: the report is the working-directory line followed by exactly one
\* entry line for every Entry of the finished tree other than the scan root,
\* which has no entry line; an empty directory below the root has its own
\* line, at 0 percent, followed by no child line.  A report that ends at a
\* path sliced inside a character holds the working-directory line and at
\* most one line for each Entry other than the root, and lacks a line.
C8_OneLinePerEntryBelowRoot ==
    /\ pcMain = "done" =>
          /\ \A p \in PathsIn(entity[Root]) \ {PathOf(Root)} :
                Cardinality(EntryLines(p)) = 1
          /\ Len(stdout) = Cardinality(PathsIn(entity[Root]))
    /\ pcMain = PanicCharBoundary =>
          /\ \A p \in PathsIn(entity[Root]) \ {PathOf(Root)} :
                Cardinality(EntryLines(p)) <= 1
          /\ Len(stdout) < Cardinality(PathsIn(entity[Root]))
    /\ pcMain \in Reported =>
          /\ stdout[1] = CwdLine
          /\ EntryLines(PathOf(Root)) = {}
          /\ \A i \in 2..Len(stdout) :
                /\ stdout[i].typ # "CWD"
                /\ stdout[i].entry \in PathsIn(entity[Root])
                /\ (stdout[i].typ = "FOLDER" /\ entity[NodeOf(stdout[i].entry)].list = <<>>) =>
                      /\ stdout[i].ratio = 0
                      /\ i < Len(stdout) => stdout[i + 1].level <= stdout[i].level

C8_Witness ==
    /\ pcMain = "done"
    /\ Len(stdout) >= 4
    /\ \E i \in 2..Len(stdout) :
          /\ stdout[i].typ = "FOLDER"
          /\ ReadDirOk(fs, NodeOf(stdout[i].entry))
          /\ Children(fs, NodeOf(stdout[i].entry)) = {}
          /\ i < Len(stdout)
    /\ \E i \in 2..Len(stdout) : stdout[i].level = 1

\* a report that ends at the second of three entries
C8_WitnessCutShort ==
    /\ pcMain = PanicCharBoundary
    /\ Len(stdout) = 2
    /\ Cardinality(PathsIn(entity[Root])) = 4

ChildSize(p, c) ==
    LET i == CHOOSE k \in Indices(entity[p].list) : entity[p].list[k].path = PathOf(c)
    IN  entity[p].list[i].size

Abs(x) == IF x < 0 THEN -x ELSE x

\* C9: the percentage of every printed entry, in hundredths of a percent, is
\* its size * 100 / the size of its direct parent to two decimals, lies in
\* [0, 100], and is 0 when the parent's size is 0.
C9_Percentage ==
    pcMain \in Reported =>
       \A i \in 2..Len(stdout) :
          LET c == NodeOf(stdout[i].entry)
              psize == entity[Parent(c)].size
              csize == ChildSize(Parent(c), c)
              r == stdout[i].ratio
          IN  /\ 0 <= r /\ r <= 100 * 100
              /\ psize = 0 => r = 0
              /\ psize # 0 => 2 * Abs(r * psize - csize * 100 * 100) <= psize

\* Scenario A (B = 6.25%, f1 = 62.50%, f2 = 31.25%, f3 = 100% of B)
C9_Witness ==
    /\ pcMain = "done"
    /\ [i \in Indices(stdout) |-> stdout[i].ratio] = <<0, 625, 10000, 6250, 3125>>

\* an empty directory and an unreadable file under a root of size 0
C9_WitnessZeroParent ==
    /\ pcMain = "done"
    /\ entity[Root].size = 0
    /\ Len(stdout) >= 3

(***************************************************************************)
(* Termination                                                             *)
(***************************************************************************)
\* C10 as stated, for a run started in a working directory that exists:
\* under fair scheduling every started resolve completes, the root's resolve
\* returns and the full tree is printed.
C10_Termination ==
    cwdOk => <>[](pcMain = "done" /\ \A n \in Nodes : pc[n] \in {"idle", "done"})

(***************************************************************************)
(* The entries of a listing                                                *)
(***************************************************************************)
\* the entries of folder n whose entry read and file-type lookup succeed
Kept(n) == {c \in Children(fs, n) : fs[c].fault \notin {"next", "type"}}

Skipped(n) == Children(fs, n) \ Kept(n)

PositionsOf(n, c) == {i \in Indices(entity[n].list) : entity[n].list[i].path = PathOf(c)}

\* the size entry c contributes: a file's length (0 when unreadable), a
\* folder's resolved size
Contribution(c) ==
    IF fs[c].ftype = "file"
    THEN (IF fs[c].fault = "meta" THEN 0 ELSE fs[c].len)
    ELSE entity[c].size

RECURSIVE SumOver(_)
SumOver(S) ==
    IF S = {} THEN 0
    ELSE LET c == CHOOSE x \in S : TRUE
         IN  Contribution(c) + SumOver(S \ {c})

\* C11 as stated: an entry whose read or file-type lookup fails is the only
\* entry skipped: every other entry of the listing is among the folder's children
\* and the folder's size is the sum over the entries that were not skipped.
C11_EntryFailureSkipsOnlyThatEntry ==
    \A n \in Nodes :
       (pc[n] = "done" /\ ReadDirOk(fs, n)) =>
          /\ \A c \in Skipped(n) : PositionsOf(n, c) = {}
          /\ \A c \in Kept(n) : PositionsOf(n, c) # {}
          /\ entity[n].size = SumOver(Kept(n))

(***************************************************************************)
(* The order of the report                                                 *)
(***************************************************************************)
LinePath(i) == stdout[i].entry

IsAncestorPath(p, q) == Len(p) < Len(q) /\ SubSeq(q, 1, Len(p)) = p

HasLine(p) == \E i \in 2..Len(stdout) : LinePath(i) = p

LineOf(p) == CHOOSE i \in 2..Len(stdout) : LinePath(i) = p

\* the entry lines are in depth-first pre-order of the finished tree
PreOrder ==
    /\ \A i \in 2..Len(stdout) :
          LET below == {j \in 2..Len(stdout) : IsAncestorPath(LinePath(i), LinePath(j))}
          IN  /\ stdout[i].level = Len(LinePath(i)) - 2
              /\ below = (i + 1)..(i + Cardinality(below))
    /\ \A n \in Nodes :
          pc[n] = "done" =>
             \A a, b \in Indices(entity[n].list) :
                (a < b /\ HasLine(entity[n].list[b].path)) =>
                   /\ HasLine(entity[n].list[a].path)
                   /\ LineOf(entity[n].list[a].path) < LineOf(entity[n].list[b].path)

\* C12: the walk leaves the tree as it is and prints it depth-first in
\* pre-order: the lines of a directory's descendants follow its own line
\* directly, before any later sibling, and siblings are in the order of the
\* children list.
C12_PreOrderReadOnly ==
    [][(pcMain = "await" /\ pcMain' # "await") => (entity' = entity /\ PreOrder')]_vars

\* a folder's line, its child's line, then the line of a later sibling
C12_Witness ==
    /\ pcMain = "done"
    /\ \E i \in 2..(Len(stdout) - 2) :
          /\ stdout[i].typ = "FOLDER"
          /\ stdout[i + 1].level = stdout[i].level + 1
          /\ stdout[i + 2].level = stdout[i].level

(***************************************************************************)
(* Spawned tasks                                                           *)
(***************************************************************************)
Spawned == {c \in Nodes \ {Root} : pc[c] # "idle"}

\* the entries of folder n that have been pushed, spawned or skipped
Handled(n) == Children(fs, n) \ (stream[n] \cup {cur[n]})

\* the entries of folder n that were read, with their file type, and handled
Listed(n) == Kept(n) \cap Handled(n)

\* the entries a scan from the root gets to read
RECURSIVE Reached(_)
Reached(c) ==
    \/ c = Root
    \/ /\ Reached(Parent(c))
       /\ ReadDirOk(fs, Parent(c))
       /\ c \in Listed(Parent(c))

\* C13 as stated: tasks are spawned for subdirectories and for nothing else,
\* and a finished scan has spawned as many tasks as there are subdirectories
\* below the root.
C13_OneTaskPerSubdirectory ==
    /\ \A c \in Spawned : fs[c].ftype = "dir"
    /\ pcMain = "done" =>
          Cardinality(Spawned)
             = Cardinality({c \in Nodes \ {Root} : fs[c].present /\ fs[c].ftype = "dir"})

\* C13: while a directory is scanned, exactly one task is spawned for each
\* listed entry that is not a regular file (subdirectory, symlink or other
\* type) and none for a regular file, whose size is read inside the listing
\* loop; a finished scan has spawned one task for every entry it read that
\* is not a regular file.
C13_OneTaskPerNonFileEntry ==
    /\ \A n \in Nodes : \A i, j \in Indices(tasks[n]) : tasks[n][i] = tasks[n][j] => i = j
    /\ \A n \in Nodes : \A i \in Indices(tasks[n]) :
          LET c == tasks[n][i]
          IN  Parent(c) = n /\ c \in Kept(n) /\ fs[c].ftype # "file" /\ c \in Handled(n)
    /\ \A c \in Spawned : \E i \in Indices(tasks[Parent(c)]) : tasks[Parent(c)][i] = c
    /\ \A n \in Nodes :
          pc[n] \in {"next", "file_type", "metadata", "join_all"} =>
             /\ \A c \in Listed(n) :
                   IF fs[c].ftype = "file"
                   THEN c \notin Spawned /\ Cardinality(PositionsOf(n, c)) = 1
                   ELSE c \in Spawned
             /\ \A c \in Children(fs, n) \ Handled(n) :
                   c \notin Spawned /\ PositionsOf(n, c) = {}
    /\ pcMain = "done" => Spawned = {c \in Nodes \ {Root} : Reached(c) /\ fs[c].ftype # "file"}

C13_Witness ==
    /\ pcMain = "done"
    /\ \E c \in Spawned : fs[c].ftype = "other"
    /\ \E c \in Spawned : fs[c].ftype = "dir" /\ Parent(c) # Root
    /\ \E c \in Kept(Root) : fs[c].ftype = "file"

(***************************************************************************)
(* Scanning to Resolved                                                    *)
(***************************************************************************)
Rank(p) ==
    CASE p = "idle" -> 0
      [] p = "spawned" -> 1
      [] p = "readdir" -> 2
      [] p \in {"next", "file_type", "metadata"} -> 3
      [] p = "join_all" -> 4
      [] OTHER -> 5

\* C14: a folder task only moves forward, from scanning to resolved; once
\* it has returned, its node (size, kind, children and their order) never
\* changes again, is taken over unchanged by the parent that appends, sorts
\* and sums its children, and is left as it is by the report.
C14_ResolvedOnce ==
    [][/\ \A n \in Nodes :
             /\ Rank(pc'[n]) >= Rank(pc[n])
             /\ pc[n] = "done" => (pc'[n] = "done" /\ entity'[n] = entity[n])
             /\ (pc[n] \in {"next", "join_all"} /\ pc'[n] = "done") =>
                   \A i \in Indices(tasks[n]) :
                      \E k \in Indices(entity'[n].list) :
                         entity'[n].list[k] = entity[tasks[n][i]]
       /\ pcMain' \in Reported => entity' = entity]_vars

\* a resolved folder with a child of its own, held unchanged by its resolved
\* parent after the report
C14_Witness ==
    /\ pcMain = "done"
    /\ \E c \in Nodes \ {Root} :
          /\ pc[c] = "done"
          /\ entity[c].size > 0
          /\ \E k \in Indices(entity[Parent(c)].list) : entity[Parent(c)].list[k] = entity[c]
          /\ Len(entity[Parent(c)].list) >= 2

(***************************************************************************)
(* Conservation of entries                                                 *)
(***************************************************************************)
ChildNode(n, c) == entity[n].list[CHOOSE i \in PositionsOf(n, c) : TRUE]

\* C15: the children of a listed folder are exactly one node for each entry
\* whose entry read and file-type lookup succeeded, none lost or duplicated
\* between the pushed files and the joined task results; the node is a File
\* iff the entry is a regular file, and any other entry is a Folder node
\* resolved by a spawned task.
C15_EntriesConserved ==
    \A n \in Nodes :
       /\ pc[n] \in {"next", "file_type", "metadata", "join_all"} =>
             Len(entity[n].list) + Len(tasks[n]) = Cardinality(Listed(n))
       /\ (pc[n] = "done" /\ ReadDirOk(fs, n)) =>
             /\ Len(entity[n].list) = Cardinality(Listed(n))
             /\ \A c \in Listed(n) :
                   /\ Cardinality(PositionsOf(n, c)) = 1
                   /\ ChildNode(n, c).kind = "File" <=> fs[c].ftype = "file"
                   /\ fs[c].ftype # "file" =>
                         /\ ChildNode(n, c).kind = "Folder"
                         /\ pc[c] = "done"
                         /\ \E i \in Indices(tasks[n]) : tasks[n][i] = c

C15_Witness ==
    \E n \in Nodes :
       /\ pc[n] = "done"
       /\ \E c \in Kept(n) : fs[c].ftype = "file"
       /\ \E c \in Kept(n) : fs[c].ftype = "dir"
       /\ \E c \in Kept(n) : fs[c].ftype = "other"
       /\ Len(entity[n].list) = 3

(***************************************************************************)
(* The "Invalid FSType" panic                                              *)
(***************************************************************************)
\* C16: the panic of FSType::list and FSType::list_mut is never reached: a
\* task that takes list_mut holds a node constructed as Folder, and print
\* calls list on the root folder and on Folder children only.
C16_NoInvalidFSTypePanic ==
    /\ pcMain # PanicInvalidFSType
    /\ \A n \in Nodes : pc[n] # "panic"
    /\ \A n \in Nodes : pc[n] \in Scanning => ~ListPanics(entity[n].kind)
    /\ pc[Root] = "done" =>
          \A i \in Indices(PrintTree(entity[Root], 0)) :
             PrintTree(entity[Root], 0)[i] # Panic(PanicInvalidFSType)

\* the report has passed a File at the top level and a File inside a Folder
C16_Witness ==
    /\ pcMain = "done"
    /\ \E i, j \in 2..Len(stdout) :
          /\ stdout[i].typ = "FILE" /\ stdout[i].level = 0
          /\ stdout[j].typ = "FILE" /\ stdout[j].level = 1

====
